---- MODULE Spec2Model ----
(***************************************************************************)
(* LocalNodeModel (packages/gatsby/src/schema/node-model.js): the query    *)
(* facade between the page-rendering engine and the node store, with the   *)
(* page-dependency tracking every read operation performs.                 *)
(*                                                                         *)
(* JavaScript values are records tagged by k:                              *)
(*   [k |-> "undefined"], [k |-> "null"], [k |-> "string", s |-> ...],     *)
(*   [k |-> "object", id |-> ..., type |-> ...]  (a plain object; a node   *)
(*   is one, with type standing for internal.type),                        *)
(*   [k |-> "array", items |-> <<...>>].                                   *)
(* A missing argument or property is Undefined.                            *)
(***************************************************************************)
EXTENDS Integers, Sequences, FiniteSets, TLC

VARIABLES
  schema,    \* the schema oracle the facades were constructed with
  sink,      \* the calls made to createPageDependency, in order
  pending,   \* runQuery calls suspended on `await this.nodeStore.runQuery`
  started,   \* number of operations called so far
  last       \* the operation completed by the latest step, as its caller saw it

vars == <<schema, sink, pending, started, last>>

----------------------------------------------------------------------------
(* Bounds of the model *)

MaxCalls == 2      \* operations called in one behaviour of Spec
MaxIds == 3        \* longest `ids` argument of getNodesByIds
MaxResult == 2     \* longest list the store's runQuery delivers
MaxPending == 2    \* runQuery calls in flight at once
MaxPossible == 3   \* longest getPossibleTypes list of a drawn schema oracle

----------------------------------------------------------------------------
(* JavaScript values *)

Undefined == [k |-> "undefined"]
Null == [k |-> "null"]
Str(s) == [k |-> "string", s |-> s]
Obj(id, type) == [k |-> "object", id |-> id, type |-> type]
Arr(items) == [k |-> "array", items |-> items]
Bool(b) == [k |-> "boolean", b |-> b]
Thrown == [k |-> "thrown"]          \* an exception instead of a value

\* ToBoolean: what `!x`, `x && ...`, `if (x)` and filter(Boolean) test.
Truthy(v) ==
  CASE v.k = "undefined" -> FALSE
    [] v.k = "null" -> FALSE
    [] v.k = "string" -> v.s # ""
    [] v.k = "boolean" -> v.b
    [] OTHER -> TRUE

\* Array.prototype.includes over a list of names.
Includes(seq, x) == \E i \in 1..Len(seq) : seq[i] = x

\* All sequences over S of length at most n.
SeqsUpTo(S, n) == UNION {[1..m -> S] : m \in 0..n}

\* The sequences of SeqsUpTo(S, n) without a repeated element.
DistinctSeqsUpTo(S, n) ==
  {s \in SeqsUpTo(S, n) : \A i, j \in 1..Len(s) : s[i] = s[j] => i = j}

----------------------------------------------------------------------------
(* The schema oracle (graphql): a function from type names to type handles *)
(* [k |-> "type", name, kind, interfaces, possible].  kind is "object",    *)
(* "interface" or "union"; interfaces is what getInterfaces() returns, by  *)
(* name; possible is what schema.getPossibleTypes returns, by name.        *)

TypeHandle(name, kind, interfaces, possible) ==
  [k |-> "type", name |-> name, kind |-> kind,
   interfaces |-> interfaces, possible |-> possible]

\* schema.getType(name): the handle, or undefined for an unknown name.
getType(sch, name) == IF name \in DOMAIN sch THEN sch[name] ELSE Undefined

\* graphql's isAbstractType: interface and union types; false for undefined.
isAbstractType(gqlType) ==
  gqlType.k = "type" /\ gqlType.kind \in {"interface", "union"}

\* gqlType instanceof GraphQLUnionType
isUnionType(gqlType) == gqlType.k = "type" /\ gqlType.kind = "union"

\* schema.getPossibleTypes(gqlType): handles, in the oracle's order.
getPossibleTypes(sch, gqlType) ==
  [i \in 1..Len(gqlType.possible) |-> sch[gqlType.possible[i]]]

\* type.getInterfaces().some(iface => iface.name === `Node`)
implementsNode(type) ==
  \E i \in 1..Len(type.interfaces) : type.interfaces[i] = "Node"

\* Faulty variant: the possible types are not restricted to those that
\* implement `Node`.
toNodeTypeNames_noFilter(sch, gqlTypeName) ==
  LET gqlType == IF gqlTypeName.k = "string"
                 THEN getType(sch, gqlTypeName.s)
                 ELSE gqlTypeName
  IN IF ~Truthy(gqlType) THEN <<>>
     ELSE LET possibleTypes == IF isAbstractType(gqlType)
                               THEN getPossibleTypes(sch, gqlType)
                               ELSE <<gqlType>>
          IN [i \in 1..Len(possibleTypes) |-> possibleTypes[i].name]

\* toNodeTypeNames(schema, gqlTypeName)
toNodeTypeNames(sch, gqlTypeName) ==
  LET gqlType == IF gqlTypeName.k = "string"
                 THEN getType(sch, gqlTypeName.s)
                 ELSE gqlTypeName
  IN IF ~Truthy(gqlType) THEN <<>>
     ELSE LET possibleTypes == IF isAbstractType(gqlType)
                               THEN getPossibleTypes(sch, gqlType)
                               ELSE <<gqlType>>
              kept == SelectSeq(possibleTypes, implementsNode)
          IN [i \in 1..Len(kept) |-> kept[i].name]

----------------------------------------------------------------------------
(* The node store the facades share.  The facade never mutates it. *)

StoreNodes ==
  << Obj("n1", "Post"), Obj("n2", "Author"), Obj("n3", "Post"),
     Obj("n4", "Settings") >>

\* nodeStore.getNode(id): the stored node, or undefined.
getNode(id) ==
  IF id.k = "string" /\ \E i \in 1..Len(StoreNodes) : StoreNodes[i].id = id.s
  THEN StoreNodes[CHOOSE i \in 1..Len(StoreNodes) : StoreNodes[i].id = id.s]
  ELSE Undefined

\* nodeStore.getNodes()
getNodes == StoreNodes

\* nodeStore.getNodesByType(typeName)
getNodesByType(typeName) ==
  SelectSeq(StoreNodes, LAMBDA node : node.type = typeName)

\* nodeTypeNames.reduce((acc, typeName) =>
\*   acc.concat(this.nodeStore.getNodesByType(typeName)), [])
RECURSIVE nodesOfTypes(_)
nodesOfTypes(nodeTypeNames) ==
  IF nodeTypeNames = <<>> THEN <<>>
  ELSE getNodesByType(Head(nodeTypeNames)) \o nodesOfTypes(Tail(nodeTypeNames))

----------------------------------------------------------------------------
(* The node accessor: the module-level getNodeById(nodeStore, id) *)

\* _.isPlainObject(id) && id.id
isResolvedNode(id) == id.k = "object" /\ id.id # ""

\* The value the accessor returns.
resolveNode(id) ==
  IF isResolvedNode(id) THEN id
  ELSE IF id.k \notin {"null", "undefined"} THEN getNode(id) ELSE Null

\* The nodeStore.getNode calls the accessor makes for id, by argument.
resolveLookups(id) ==
  IF isResolvedNode(id) THEN <<>>
  ELSE IF id.k \notin {"null", "undefined"} THEN <<id>> ELSE <<>>

----------------------------------------------------------------------------
(* The facades: one per render context, each bound to its path *)

Facades == {"A", "B", "C"}

\* this.path of each facade; facade C was constructed without a path.
thisPath(f) ==
  CASE f = "A" -> Str("/a")
    [] f = "B" -> Str("/b")
    [] OTHER -> Undefined

\* { path: this.path, ...(pageDependencies || {}) }, read back by
\* `const { path, connectionType } = fullDependencies`.  A descriptor is
\* [k |-> "object"] with the properties it carries as further fields.
fullDependencies(f, pageDependencies) ==
  LET given == IF Truthy(pageDependencies) THEN pageDependencies
               ELSE [k |-> "object"]
  IN [path |-> IF "path" \in DOMAIN given THEN given.path ELSE thisPath(f),
      connectionType |-> IF "connectionType" \in DOMAIN given
                         THEN given.connectionType ELSE Undefined]

\* Faulty variant: a connection is recorded and the nodes are recorded too.
trackCalls_nodesToo(f, result, pageDependencies) ==
  LET full == fullDependencies(f, pageDependencies)
      path == full.path
      connectionType == full.connectionType
      nodes == IF result.k = "array" THEN result.items ELSE <<result>>
      kept == SelectSeq(nodes, Truthy)
      perNode == [i \in 1..Len(kept) |->
                    [path |-> path.s, nodeId |-> kept[i].id]]
  IN IF Truthy(path)
     THEN IF Truthy(connectionType)
          THEN << [path |-> path.s, connection |-> connectionType.s] >>
               \o perNode
          ELSE perNode
     ELSE <<>>

\* Faulty variant: of a list, only the first node is recorded.
trackCalls_onlyFirst(f, result, pageDependencies) ==
  LET full == fullDependencies(f, pageDependencies)
      path == full.path
      connectionType == full.connectionType
  IN IF Truthy(path)
     THEN IF Truthy(connectionType)
          THEN << [path |-> path.s, connection |-> connectionType.s] >>
          ELSE LET nodes == IF result.k = "array" THEN result.items
                            ELSE <<result>>
                   kept == SelectSeq(nodes, Truthy)
               IN IF kept = <<>> THEN <<>>
                  ELSE << [path |-> path.s, nodeId |-> kept[1].id] >>
     ELSE <<>>

\* The createPageDependency calls of trackPageDependencies(result,
\* pageDependencies) on facade f, in order.
trackCalls(f, result, pageDependencies) ==
  LET full == fullDependencies(f, pageDependencies)
      path == full.path
      connectionType == full.connectionType
  IN IF Truthy(path)
     THEN IF Truthy(connectionType)
          THEN << [path |-> path.s, connection |-> connectionType.s] >>
          ELSE LET nodes == IF result.k = "array" THEN result.items
                            ELSE <<result>>
                   kept == SelectSeq(nodes, Truthy)
               IN [i \in 1..Len(kept) |->
                     [path |-> path.s, nodeId |-> kept[i].id]]
     ELSE <<>>

\* trackPageDependencies(result, pageDependencies): what it returns and the
\* createPageDependency calls it makes.
trackPageDependencies(f, result, pageDependencies) ==
  [returned |-> result, calls |-> trackCalls(f, result, pageDependencies)]

----------------------------------------------------------------------------
(* The results of the public operations, before tracking *)

\* Faulty variant: the type argument is not looked at.
getNodeByIdResult_noType(sch, id, type) ==
  LET node == resolveNode(id)
  IN IF ~Truthy(node) THEN Null ELSE node

\* LocalNodeModel.getNodeById: `result` of lines 76-86.
getNodeByIdResult(sch, id, type) ==
  LET node == resolveNode(id)
  IN IF ~Truthy(node) THEN Null
     ELSE IF ~Truthy(type) THEN node
     ELSE IF Includes(toNodeTypeNames(sch, type), node.type) THEN node
     ELSE Null

\* ids.map(id => getNodeById(this.nodeStore, id)).filter(Boolean), or [].
resolveNodes(ids) ==
  IF ids.k = "array"
  THEN SelectSeq([i \in 1..Len(ids.items) |-> resolveNode(ids.items[i])],
                 Truthy)
  ELSE <<>>

\* The nodeStore.getNode calls of getNodesByIds, in order.
RECURSIVE lookupsOf(_)
lookupsOf(items) ==
  IF items = <<>> THEN <<>>
  ELSE resolveLookups(Head(items)) \o lookupsOf(Tail(items))

\* Faulty variant: the nodes are not filtered by type.
getNodesByIdsResult_noTypeFilter(sch, ids, type) == Arr(resolveNodes(ids))

\* LocalNodeModel.getNodesByIds: `result` of lines 103-113.
getNodesByIdsResult(sch, ids, type) ==
  LET nodes == resolveNodes(ids)
  IN IF Len(nodes) = 0 \/ ~Truthy(type) THEN Arr(nodes)
     ELSE LET nodeTypeNames == toNodeTypeNames(sch, type)
          IN Arr(SelectSeq(nodes,
                   LAMBDA node : Includes(nodeTypeNames, node.type)))

\* LocalNodeModel.getAllNodes: `result` of lines 131-141.
getAllNodesResult(sch, type) ==
  IF ~Truthy(type) THEN Arr(getNodes)
  ELSE Arr(SelectSeq(nodesOfTypes(toNodeTypeNames(sch, type)), Truthy))

\* Faulty variant: a type name is not looked up in the schema.
queryType_asGiven(sch, type) == type

\* LocalNodeModel.runQuery: gqlType of line 165.
queryType(sch, type) ==
  IF type.k = "string" THEN getType(sch, type.s) ELSE type

\* LocalNodeModel.runQuery: the type names whose listings lines 174-180 read.
queryListed(sch, gqlType) ==
  IF isAbstractType(gqlType) THEN toNodeTypeNames(sch, gqlType) ELSE <<>>

\* LocalNodeModel.runQuery: `nodes` of lines 173-180.
queryNodes(sch, gqlType) ==
  IF isAbstractType(gqlType)
  THEN Arr(nodesOfTypes(toNodeTypeNames(sch, gqlType)))
  ELSE Undefined

\* Faulty variant: firstOnly leaves an empty list as it is.
queryResultOf_keepsEmpty(firstOnly, queryResult) ==
  IF Truthy(firstOnly)
  THEN IF Truthy(queryResult) /\ Len(queryResult.items) > 0
       THEN queryResult.items[1]
       ELSE queryResult
  ELSE queryResult

\* LocalNodeModel.runQuery: `result` of lines 189-196.
queryResultOf(firstOnly, queryResult) ==
  IF Truthy(firstOnly)
  THEN IF Truthy(queryResult) /\ Len(queryResult.items) > 0
       THEN queryResult.items[1]
       ELSE Null
  ELSE queryResult

----------------------------------------------------------------------------
(* The state machine *)

\* What the caller of a completed operation saw, with the store and sink
\* calls the operation made.
Completed(op, f, args, deps, outcome, raw, returned, emitted, lookups, listed, queried) ==
  [op |-> op, facade |-> f, args |-> args, deps |-> deps,
   outcome |-> outcome, raw |-> raw, returned |-> returned,
   emitted |-> emitted, lookups |-> lookups, listed |-> listed,
   queried |-> queried]

NoCall ==
  Completed("none", "A", [k |-> "object"], Undefined, "none", Undefined,
            Undefined, <<>>, <<>>, <<>>, FALSE)

\* getNodeById(args, pageDependencies) on facade f
GetNodeById(f, id, type, deps) ==
  LET result == getNodeByIdResult(schema, id, type)
      t == trackPageDependencies(f, result, deps)
  IN /\ started' = started + 1
     /\ sink' = sink \o t.calls
     /\ last' = Completed("getNodeById", f, [id |-> id, type |-> type], deps,
                          "returned", result, t.returned, t.calls,
                          resolveLookups(id), <<>>, FALSE)
     /\ UNCHANGED <<schema, pending>>

\* getNodesByIds(args, pageDependencies) on facade f
GetNodesByIds(f, ids, type, deps) ==
  LET result == getNodesByIdsResult(schema, ids, type)
      t == trackPageDependencies(f, result, deps)
  IN /\ started' = started + 1
     /\ sink' = sink \o t.calls
     /\ last' = Completed("getNodesByIds", f, [ids |-> ids, type |-> type],
                          deps, "returned", result, t.returned, t.calls,
                          IF ids.k = "array" THEN lookupsOf(ids.items)
                          ELSE <<>>,
                          <<>>, FALSE)
     /\ UNCHANGED <<schema, pending>>

\* Faulty variant: getAllNodes tracks whether a descriptor is passed or not.
GetAllNodes_alwaysTracks(f, type, deps) ==
  LET result == getAllNodesResult(schema, type)
      t == trackPageDependencies(f, result, deps)
  IN /\ started' = started + 1
     /\ sink' = sink \o t.calls
     /\ last' = Completed("getAllNodes", f, [type |-> type], deps,
                          "returned", result, t.returned, t.calls, <<>>,
                          IF Truthy(type) THEN toNodeTypeNames(schema, type)
                          ELSE <<>>,
                          FALSE)
     /\ UNCHANGED <<schema, pending>>

\* getAllNodes(args, pageDependencies) on facade f
GetAllNodes(f, type, deps) ==
  LET result == getAllNodesResult(schema, type)
      t == IF Truthy(deps) THEN trackPageDependencies(f, result, deps)
           ELSE [returned |-> result, calls |-> <<>>]
  IN /\ started' = started + 1
     /\ sink' = sink \o t.calls
     /\ last' = Completed("getAllNodes", f, [type |-> type], deps,
                          "returned", result, t.returned, t.calls, <<>>,
                          IF Truthy(type) THEN toNodeTypeNames(schema, type)
                          ELSE <<>>,
                          FALSE)
     /\ UNCHANGED <<schema, pending>>

\* trackPageDependencies(result, pageDependencies) on facade f, called by a
\* resolver on a result of its own.
TrackPageDependencies(f, result, deps) ==
  LET t == trackPageDependencies(f, result, deps)
  IN /\ started' = started + 1
     /\ sink' = sink \o t.calls
     /\ last' = Completed("trackPageDependencies", f, [result |-> result],
                          deps, "returned", result, t.returned, t.calls,
                          <<>>, <<>>, FALSE)
     /\ UNCHANGED <<schema, pending>>

\* The smallest free name for a call in flight.
FreeSlot == CHOOSE n \in 1..MaxPending :
              /\ \A c \in pending : c.call # n
              /\ \A m \in 1..(n - 1) : \E c \in pending : c.call = m

\* runQuery(args, pageDependencies) on facade f, up to its `await`: the
\* invariant rejects a union type; otherwise the store's runQuery has been
\* called and the operation is suspended on it.
RunQueryStart(f, type, query, firstOnly, deps) ==
  LET gqlType == queryType(schema, type)
      args == [type |-> type, query |-> query, firstOnly |-> firstOnly]
  IN /\ started' = started + 1
     /\ IF isUnionType(gqlType)
        THEN /\ last' = Completed("runQuery", f, args, deps, "rejected",
                                  Undefined, Undefined, <<>>, <<>>, <<>>,
                                  FALSE)
             /\ UNCHANGED <<schema, sink, pending>>
        ELSE /\ Cardinality(pending) < MaxPending
             /\ pending' = pending \cup
                  {[call |-> FreeSlot, facade |-> f, args |-> args,
                    deps |-> deps,
                    storeArgs |-> [queryArgs |-> query,
                                   firstOnly |-> firstOnly,
                                   gqlType |-> gqlType,
                                   nodes |-> queryNodes(schema, gqlType)],
                    listed |-> queryListed(schema, gqlType)]}
             /\ UNCHANGED <<schema, sink, last>>

\* Faulty variant: a resumed runQuery tracks against the path of facade A,
\* whichever facade it was called on.
RunQueryResume_ambientPath(c, queryResult) ==
  LET result == queryResultOf(c.args.firstOnly, queryResult)
      t == trackPageDependencies("A", result, c.deps)
      args == [type |-> c.args.type, query |-> c.args.query,
               firstOnly |-> c.args.firstOnly, queryResult |-> queryResult]
  IN /\ c \in pending
     /\ pending' = pending \ {c}
     /\ IF queryResult = Thrown
        THEN /\ last' = Completed("runQuery", c.facade, args, c.deps,
                                  "rejected", Undefined, Undefined, <<>>,
                                  <<>>, c.listed, TRUE)
             /\ UNCHANGED sink
        ELSE /\ sink' = sink \o t.calls
             /\ last' = Completed("runQuery", c.facade, args, c.deps,
                                  "returned", result, t.returned, t.calls,
                                  <<>>, c.listed, TRUE)
     /\ UNCHANGED <<schema, started>>

\* The store delivers queryResult to the suspended call c, which runs to its
\* end.
RunQueryResume(c, queryResult) ==
  LET result == queryResultOf(c.args.firstOnly, queryResult)
      t == trackPageDependencies(c.facade, result, c.deps)
      args == [type |-> c.args.type, query |-> c.args.query,
               firstOnly |-> c.args.firstOnly, queryResult |-> queryResult]
  IN /\ c \in pending
     /\ pending' = pending \ {c}
     /\ IF queryResult = Thrown
        THEN /\ last' = Completed("runQuery", c.facade, args, c.deps,
                                  "rejected", Undefined, Undefined, <<>>,
                                  <<>>, c.listed, TRUE)
             /\ UNCHANGED sink
        ELSE /\ sink' = sink \o t.calls
             /\ last' = Completed("runQuery", c.facade, args, c.deps,
                                  "returned", result, t.returned, t.calls,
                                  <<>>, c.listed, TRUE)
     /\ UNCHANGED <<schema, started>>

\* toNodeTypeNames(schema, gqlTypeName), called on its own.
ResolveTypes(gqlTypeName) ==
  /\ started' = started + 1
  /\ last' = Completed("toNodeTypeNames", "A", [type |-> gqlTypeName],
                       Undefined, "returned",
                       Arr(toNodeTypeNames(schema, gqlTypeName)),
                       Arr(toNodeTypeNames(schema, gqlTypeName)),
                       <<>>, <<>>, <<>>, FALSE)
  /\ UNCHANGED <<schema, sink, pending>>

----------------------------------------------------------------------------
(* The schema and the arguments the operations are exercised with *)

BlogSchema ==
  [n \in {"Post", "Author", "Settings", "Content", "Media"} |->
     CASE n = "Post" -> TypeHandle(n, "object", <<"Content", "Node">>, <<>>)
       [] n = "Author" -> TypeHandle(n, "object", <<"Node", "Content">>, <<>>)
       [] n = "Settings" -> TypeHandle(n, "object", <<"Content">>, <<>>)
       [] n = "Content" ->
            TypeHandle(n, "interface", <<>>, <<"Post", "Settings", "Author">>)
       [] n = "Media" -> TypeHandle(n, "union", <<>>, <<"Author", "Post">>)]

\* args.id: ids of stored nodes, an unknown id, null, a node resolved
\* earlier that the store no longer holds, and an object without an id.
IdArgs ==
  {Str("n1"), Str("n2"), Str("zz"), Null, Obj("n9", "Post"), Obj("", "Post")}

\* args.type: absent, names (Ghost is no type of the schema), handles.
TypeArgs ==
  {Undefined, Str("Post"), Str("Author"), Str("Settings"), Str("Content"),
   Str("Media"), Str("Ghost"), BlogSchema["Content"], BlogSchema["Media"]}

\* args.ids: lists of ids, and values that are no list.
IdsArgs ==
  {Arr(s) : s \in SeqsUpTo(IdArgs \ {Obj("", "Post")}, MaxIds)} \cup
  {Undefined, Str("n1")}

\* pageDependencies: absent, or an object with any of its two properties.
DepsArgs ==
  {Undefined} \cup
  {[k |-> "object"]} \cup
  {[k |-> "object", path |-> p] : p \in {Str(""), Str("/blog")}} \cup
  {[k |-> "object", connectionType |-> c] : c \in {Str(""), Str("allPost")}} \cup
  {[k |-> "object", path |-> p, connectionType |-> c] :
     p \in {Str(""), Str("/blog")}, c \in {Str(""), Str("allPost")}}

QueryArgs == {"byTitle", "byDate"}
FirstOnlyArgs == {Undefined, Bool(TRUE)}

\* What the store's runQuery may answer with: a list, nothing, or an error.
StoreResults ==
  {Undefined, Thrown} \cup
  {Arr(s) : s \in SeqsUpTo({StoreNodes[1], StoreNodes[2]}, MaxResult)}

\* The results a resolver hands to trackPageDependencies itself: a node,
\* nothing, or a list whose entries may be null.
ResultArgs ==
  {Null, Undefined, StoreNodes[3]} \cup
  {Arr(s) : s \in SeqsUpTo({StoreNodes[1], StoreNodes[2], Null}, MaxResult)}

\* A schema, two facades with a path and one without, an empty sink.
Init ==
  /\ schema = BlogSchema
  /\ sink = <<>>
  /\ pending = {}
  /\ started = 0
  /\ last = NoCall

\* Any operation on any facade, with any arguments of the sets above.
AnyCall ==
  \/ \E f \in Facades, id \in IdArgs, type \in TypeArgs, deps \in DepsArgs :
       GetNodeById(f, id, type, deps)
  \/ \E f \in Facades, ids \in IdsArgs, type \in TypeArgs, deps \in DepsArgs :
       GetNodesByIds(f, ids, type, deps)
  \/ \E f \in Facades, type \in TypeArgs, deps \in DepsArgs :
       GetAllNodes(f, type, deps)
  \/ \E f \in Facades, type \in TypeArgs, query \in QueryArgs,
        firstOnly \in FirstOnlyArgs, deps \in DepsArgs :
       RunQueryStart(f, type, query, firstOnly, deps)
  \/ \E f \in Facades, result \in ResultArgs, deps \in DepsArgs :
       TrackPageDependencies(f, result, deps)

\* The store answers a suspended runQuery.
AnyAnswer ==
  \E c \in pending, queryResult \in StoreResults :
    RunQueryResume(c, queryResult)

\* One operation with arguments of the full sets, run to its end.
NextCall ==
  \/ started = 0 /\ AnyCall
  \/ AnyAnswer

SpecCall == Init /\ [][NextCall]_vars

\* The schema oracles toNodeTypeNames is exercised with: three object
\* types with any interfaces, an interface and a union with any possible
\* types, listed once each as in a valid schema.
ObjectNames == {"Post", "Author", "Settings"}

InterfaceLists == {<<>>, <<"Node">>, <<"Content", "Node">>}

Schemas ==
  {[n \in ObjectNames \cup {"Content", "Media"} |->
      CASE n \in ObjectNames -> TypeHandle(n, "object", ifaces[n], <<>>)
        [] n = "Content" -> TypeHandle(n, "interface", <<>>, content)
        [] n = "Media" -> TypeHandle(n, "union", <<>>, media)] :
     ifaces \in [ObjectNames -> InterfaceLists],
     content \in DistinctSeqsUpTo(ObjectNames, MaxPossible),
     media \in DistinctSeqsUpTo(ObjectNames, MaxPossible)}

\* A type reference: a name, known to the schema or not, or a handle.
TypeRefs(sch) ==
  {Str(n) : n \in DOMAIN sch \cup {"Ghost"}} \cup {sch[n] : n \in DOMAIN sch}

InitTypes ==
  /\ schema \in Schemas
  /\ sink = <<>>
  /\ pending = {}
  /\ started = 0
  /\ last = NoCall

NextTypes ==
  started = 0 /\ \E gqlTypeName \in TypeRefs(schema) : ResolveTypes(gqlTypeName)

SpecTypes == InitTypes /\ [][NextTypes]_vars

\* The descriptors and results the interleaved operations are run with.
SomeDeps ==
  {Undefined,
   [k |-> "object", path |-> Str("/blog")],
   [k |-> "object", connectionType |-> Str("allPost")],
   [k |-> "object", path |-> Str(""), connectionType |-> Str("allPost")]}

SomeResults == {Arr(<<>>), Arr(<<StoreNodes[1], StoreNodes[2]>>)}

\* Operations of several facades interleaved: a runQuery may be suspended
\* while other operations, of any facade, start and end.
Next ==
  \/ /\ started < MaxCalls
     /\ \E f \in Facades, deps \in SomeDeps :
          \/ GetNodeById(f, Str("n1"), Undefined, deps)
          \/ GetNodesByIds(f, Arr(<<Str("n3"), Str("n2")>>), Undefined, deps)
          \/ GetAllNodes(f, Str("Author"), deps)
          \/ RunQueryStart(f, Str("Post"), "byTitle", Undefined, deps)
  \/ \E c \in pending, queryResult \in SomeResults :
       RunQueryResume(c, queryResult)

Spec == Init /\ [][Next]_vars

----------------------------------------------------------------------------
(* What the specification says of a call, in its own terms *)

NonEmpty(v) == v.k = "string" /\ v.s # ""

\* The path of the effective descriptor: the descriptor's when it provides
\* one, the bound path of the facade otherwise.
EffectivePath(f, deps) ==
  IF deps.k = "object" /\ "path" \in DOMAIN deps THEN deps.path
  ELSE thisPath(f)

\* The connectionType of the effective descriptor.
EffectiveConnection(deps) ==
  IF deps.k = "object" /\ "connectionType" \in DOMAIN deps
  THEN deps.connectionType
  ELSE Undefined

\* The call went through trackPageDependencies.
Tracked(call) ==
  /\ call.outcome = "returned"
  /\ \/ call.op \in {"getNodeById", "getNodesByIds", "runQuery",
                     "trackPageDependencies"}
     \/ call.op = "getAllNodes" /\ call.deps # Undefined

\* A result as a list of entries: a scalar is a list of one.
Entries(result) == IF result.k = "array" THEN result.items ELSE <<result>>

\* One {path, nodeId} record per entry that is a node, in order.
RECURSIVE NodeRecords(_, _)
NodeRecords(path, entries) ==
  IF entries = <<>> THEN <<>>
  ELSE (IF Head(entries).k = "object"
        THEN << [path |-> path, nodeId |-> Head(entries).id] >>
        ELSE <<>>) \o NodeRecords(path, Tail(entries))

\* The records section 4.4 asks of a tracked call.
ExpectedRecords(f, deps, result) ==
  IF ~NonEmpty(EffectivePath(f, deps)) THEN <<>>
  ELSE IF NonEmpty(EffectiveConnection(deps))
       THEN << [path |-> EffectivePath(f, deps).s,
                connection |-> EffectiveConnection(deps).s] >>
       ELSE NodeRecords(EffectivePath(f, deps).s, Entries(result))

\* The node an id or node-shaped argument resolves to (section 4.2), Null
\* when it resolves to none.
ResolvedNode(id) ==
  IF id.k = "object" /\ id.id # "" THEN id
  ELSE IF id.k = "string" /\ \E i \in 1..Len(StoreNodes) : StoreNodes[i].id = id.s
       THEN CHOOSE n \in {StoreNodes[i] : i \in 1..Len(StoreNodes)} : n.id = id.s
       ELSE Null

\* The concrete type set of a type reference (section 4.1).
ConcreteSet(type) ==
  {toNodeTypeNames(schema, type)[i] :
     i \in 1..Len(toNodeTypeNames(schema, type))}

\* A node passes the type filter of a lookup.
PassesType(node, type) == type = Undefined \/ node.type \in ConcreteSet(type)

\* The type reference resolves to a union type of the schema.
ResolvesToUnion(type) ==
  \/ type.k = "type" /\ type.kind = "union"
  \/ /\ type.k = "string"
     /\ type.s \in DOMAIN schema
     /\ schema[type.s].kind = "union"

\* The nodes a list of ids resolves to, in order, without the unresolved
\* ones and those the type filter drops.
RECURSIVE ExpectedNodes(_, _)
ExpectedNodes(ids, type) ==
  IF ids = <<>> THEN <<>>
  ELSE (IF /\ ResolvedNode(Head(ids)) # Null
           /\ PassesType(ResolvedNode(Head(ids)), type)
        THEN <<ResolvedNode(Head(ids))>>
        ELSE <<>>) \o ExpectedNodes(Tail(ids), type)

\* The names among `names` of the types that implement `Node`, in order.
RECURSIVE NodeTypesAmong(_)
NodeTypesAmong(names) ==
  IF names = <<>> THEN <<>>
  ELSE (IF \E i \in 1..Len(schema[Head(names)].interfaces) :
             schema[Head(names)].interfaces[i] = "Node"
        THEN <<Head(names)>>
        ELSE <<>>) \o NodeTypesAmong(Tail(names))

\* No record of the sink has an empty path.
SinkPathsNonEmpty == \A i \in 1..Len(sink) : sink[i].path # ""

----------------------------------------------------------------------------
(* The claims *)

\* C1: a call that reaches trackPageDependencies with an effective
\* descriptor of non-empty path and non-empty connectionType emits exactly
\* one record {path, connection: connectionType} and no {path, nodeId}
\* record, whatever its result.
C1_ConnectionRecordOnly ==
  ( /\ Tracked(last)
    /\ NonEmpty(EffectivePath(last.facade, last.deps))
    /\ NonEmpty(EffectiveConnection(last.deps)) )
  => /\ last.emitted =
          << [path |-> EffectivePath(last.facade, last.deps).s,
              connection |-> EffectiveConnection(last.deps).s] >>
     /\ sink = last.emitted

C1_Witness ==
  /\ last.op = "runQuery"
  /\ last.returned.k = "array"
  /\ Len(last.returned.items) = 2
  /\ last.deps = [k |-> "object", path |-> Str("/blog"),
                  connectionType |-> Str("allPost")]
  /\ sink = << [path |-> "/blog", connection |-> "allPost"] >>

\* C2: a tracked call whose effective descriptor has a non-empty path and
\* no connectionType appends exactly the records {path, nodeId: n.id} of the
\* non-null entries n of its result (a scalar being a list of one), in
\* result order, nothing for a null result or an empty list, and returns the
\* result unchanged.
C2_NodeRecordsInOrder ==
  ( /\ Tracked(last)
    /\ NonEmpty(EffectivePath(last.facade, last.deps))
    /\ ~NonEmpty(EffectiveConnection(last.deps)) )
  => /\ last.emitted =
          NodeRecords(EffectivePath(last.facade, last.deps).s,
                      Entries(last.raw))
     /\ sink = last.emitted
     /\ last.raw \in {Null, Arr(<<>>)} => sink = <<>>
     /\ last.returned = last.raw

C2_Witness ==
  /\ last.op = "trackPageDependencies"
  /\ last.deps = [k |-> "object", path |-> Str("/blog")]
  /\ last.returned = Arr(<<Null, StoreNodes[2]>>)
  /\ sink = << [path |-> "/blog", nodeId |-> "n2"] >>

\* C3: runQuery on a type reference that resolves to a union type always
\* rejects, whatever the query, firstOnly and descriptor, before the store's
\* query engine or listings are called and without a record in the sink.
C3_UnionRejected ==
  /\ ( last.op = "runQuery" /\ ResolvesToUnion(last.args.type) )
     => /\ last.outcome = "rejected"
        /\ ~last.queried
        /\ last.listed = <<>>
        /\ last.emitted = <<>>
        /\ sink = <<>>
  /\ \A c \in pending : ~ResolvesToUnion(c.args.type)

C3_Witness ==
  /\ last.op = "runQuery"
  /\ last.outcome = "rejected"
  /\ last.args.type = Str("Media")
  /\ last.args.firstOnly = Bool(TRUE)
  /\ last.args.query = "byDate"
  /\ last.facade = "A"
  /\ NonEmpty(EffectiveConnection(last.deps))
  /\ pending = {}

\* C4: getAllNodes without a descriptor appends no record, even on a facade
\* with a bound path and with a non-empty listing; with a descriptor it
\* records as trackPageDependencies does for the returned list; getNodeById,
\* getNodesByIds and runQuery track against the bound path when no
\* descriptor is passed.
C4_ListingTracksOnlyOnRequest ==
  /\ ( last.op = "getAllNodes" /\ last.deps = Undefined )
     => last.emitted = <<>> /\ sink = <<>>
  /\ ( last.op = "getAllNodes" /\ last.deps # Undefined )
     => /\ last.emitted =
             ExpectedRecords(last.facade, last.deps, last.returned)
        /\ sink = last.emitted
  /\ ( /\ last.op \in {"getNodeById", "getNodesByIds", "runQuery"}
       /\ last.outcome = "returned"
       /\ last.deps = Undefined )
     => /\ last.emitted =
             ExpectedRecords(last.facade, [k |-> "object",
                                           path |-> thisPath(last.facade)],
                             last.returned)
        /\ sink = last.emitted

C4_Witness ==
  /\ last.op = "getAllNodes"
  /\ last.deps = Undefined
  /\ last.facade = "A"
  /\ last.args.type = Str("Content")
  /\ Len(last.returned.items) = 3
  /\ sink = <<>>

\* C5: in every operation that takes a type, a type name the schema does
\* not know resolves to the empty concrete set and raises no error: the
\* operation returns null (a single-node lookup, a firstOnly query) or an
\* empty list (the others).  For runQuery this is stated of the calls the
\* store answered with a list.
C5_UnknownTypeIsEmpty ==
  ( /\ last.op \in {"getNodeById", "getNodesByIds", "getAllNodes", "runQuery"}
    /\ last.args.type = Str("Ghost")
    /\ last.op = "runQuery" => last.args.queryResult.k = "array" )
  => /\ last.outcome = "returned"
     /\ last.returned =
          IF \/ last.op = "getNodeById"
             \/ last.op = "runQuery" /\ Truthy(last.args.firstOnly)
          THEN Null
          ELSE Arr(<<>>)

C7_NodesByIdsInOrder ==
  last.op = "getNodesByIds"
  => /\ last.outcome = "returned"
     /\ last.returned.k = "array"
     /\ last.returned.items =
          IF last.args.ids.k = "array"
          THEN ExpectedNodes(last.args.ids.items, last.args.type)
          ELSE <<>>
     /\ \A i \in 1..Len(last.returned.items) :
          last.returned.items[i].k = "object"

C7_Witness ==
  /\ last.op = "getNodesByIds"
  /\ last.args.ids = Arr(<<Str("n2"), Str("zz"), Str("n1")>>)
  /\ last.args.type = Undefined
  /\ last.returned = Arr(<<StoreNodes[2], StoreNodes[1]>>)

\* C8: getNodeById returns the resolved node exactly when the id, or the
\* node object given for it, resolves to a node and either no type is given
\* or the node's type is in the concrete set of the type; otherwise null.
\* An object with a non-empty id is returned as it is, without a store
\* lookup.
C8_NodeByIdAndType ==
  last.op = "getNodeById"
  => /\ last.outcome = "returned"
     /\ last.returned =
          IF /\ ResolvedNode(last.args.id) # Null
             /\ PassesType(ResolvedNode(last.args.id), last.args.type)
          THEN ResolvedNode(last.args.id)
          ELSE Null
     /\ ( last.args.id.k = "object" /\ last.args.id.id # "" )
        => /\ last.lookups = <<>>
           /\ last.returned \in {last.args.id, Null}
           /\ last.args.type = Undefined => last.returned = last.args.id

C8_Witness ==
  /\ last.op = "getNodeById"
  /\ last.args.id = Str("n1")
  /\ last.args.type = Str("Author")
  /\ last.returned = Null
  /\ last.lookups = <<Str("n1")>>

\* C9: runQuery with firstOnly returns the first element of the store's
\* list when the list is not empty and null when it is empty or absent,
\* never an empty array; without firstOnly it returns the store's list as
\* received.  The records are those of the returned value, so a firstOnly
\* query records at most one node.
C9_FirstOnlyCollapses ==
  ( last.op = "runQuery" /\ last.outcome = "returned" )
  => /\ Truthy(last.args.firstOnly)
        => /\ last.returned =
                IF /\ last.args.queryResult.k = "array"
                   /\ last.args.queryResult.items # <<>>
                THEN Head(last.args.queryResult.items)
                ELSE Null
           /\ last.returned # Arr(<<>>)
           /\ Len(last.emitted) <= 1
     /\ ~Truthy(last.args.firstOnly)
        => last.returned = last.args.queryResult
     /\ last.emitted = ExpectedRecords(last.facade, last.deps, last.returned)
     /\ sink = last.emitted

C9_Witness ==
  /\ last.op = "runQuery"
  /\ last.outcome = "returned"
  /\ last.args.firstOnly = Bool(TRUE)
  /\ last.args.queryResult = Arr(<<StoreNodes[2], StoreNodes[1]>>)
  /\ last.returned = StoreNodes[2]
  /\ last.facade = "B"
  /\ last.deps = Undefined
  /\ sink = << [path |-> "/b", nodeId |-> "n2"] >>

\* C10: under any interleaving of the calls of several facades on one store
\* and one sink, runQuery calls suspended on the store included, every
\* record of the sink carries a non-empty path, the effective path of the
\* call that emitted it: the descriptor's path when the descriptor provides
\* one, the bound path of the call's facade otherwise.  A call whose
\* effective path is empty appends nothing, connectionType or not, and a
\* runQuery appends its records only once the store has answered it.
C10_RecordsCarryCallPath ==
  /\ []SinkPathsNonEmpty
  /\ [][ LET new == SubSeq(sink', Len(sink) + 1, Len(sink'))
             begun == pending' \ pending
             ended == pending \ pending'
         IN /\ Len(sink') >= Len(sink)
            /\ SubSeq(sink', 1, Len(sink)) = sink
            /\ begun # {} => new = <<>>
            /\ new # <<>>
               => /\ last'.outcome = "returned"
                  /\ last'.emitted = new
                  /\ last'.op = "runQuery"
                     => /\ last'.queried
                        /\ \E c \in ended : /\ c.facade = last'.facade
                                            /\ c.deps = last'.deps
                  /\ NonEmpty(EffectivePath(last'.facade, last'.deps))
                  /\ \A i \in 1..Len(new) :
                       new[i].path =
                         EffectivePath(last'.facade, last'.deps).s
            /\ ( /\ begun = {}
                 /\ started' # started \/ ended # {}
                 /\ ~NonEmpty(EffectivePath(last'.facade, last'.deps)) )
               => new = <<>>
       ]_vars

C10_Witness ==
  /\ \E c \in pending : c.facade = "A" /\ c.call = 2
  /\ last.op = "runQuery"
  /\ last.facade = "B"
  /\ last.deps = Undefined
  /\ sink = << [path |-> "/b", nodeId |-> "n1"],
               [path |-> "/b", nodeId |-> "n2"] >>

====
